---- MODULE Spec2Model ----
(***************************************************************************)
(* State-machine model of the two stateful subsystems of UniAccess:        *)
(*   - the input capture engine   (src/input_listener.py)                  *)
(*   - the accessibility manager  (src/atspi_backend.py)                   *)
(* Every action is the translation of one method, module function or       *)
(* worker step of the Python source.  Exceptions are modelled by the       *)
(* except-clause that catches them.                                        *)
(***************************************************************************)
EXTENDS Integers, Sequences, FiniteSets, TLC

(***************************************************************************)
(* Bounds of the model (not program constants).                            *)
(***************************************************************************)
MaxWorkers == 2     \* thread identities (threads ever spawned by start())
MaxDevices == 2     \* length of InputManager.devices
ScenWorkers == 1    \* one-worker scenarios: threads spawned by start()
ScenEvents  == 1    \* lifecycle, dispatch, fault and stop scenarios: raw events delivered
DispatchRegs == 2   \* dispatch scenario: handler registrations
FaultRegs   == 1    \* fault scenario: registrations of the raising handler
RaceEvents  == 2    \* two-worker scenario: raw events delivered
OrderRegs   == 2    \* order scenario: handler registrations
OrderEvents == 1    \* order scenario: raw events delivered
GestureRegs == 1    \* gesture scenario: gesture handler registrations
GestureEvs  == 3    \* gesture scenario: raw events delivered
ReinitRegs  == 1    \* re-initialization scenario: handler registrations
TwoDevEvents == 2   \* two-device scenario: raw events delivered
ModifierRegs == 1   \* modifier scenario: handler registrations
ModifierEvs == 2    \* modifier scenario: raw events delivered
AtspiRegs   == 2    \* accessibility scenario: listeners held by the manager, and by the service
QueryApps   == 1    \* query scenario: children of the desktop
QueryActions == 2   \* query scenario: actions of a node
ListingApps == 3    \* listing scenario: children of the desktop

(***************************************************************************)
(* Program constants.                                                      *)
(***************************************************************************)
KEY_LEFTCTRL == 29          \* ecodes.KEY_LEFTCTRL, a modifier code
KEY_A        == 30          \* ecodes.KEY_A, a non-modifier code
KEY_L        == 38          \* ecodes.KEY_L, a non-modifier code
KEY_LEFTALT  == 56          \* ecodes.KEY_LEFTALT, a modifier code
JoinTimeout  == 1           \* thread.join(timeout=1.0), in seconds
EV_KEY       == 1           \* ecodes.EV_KEY, the event type of keys and buttons
KEY_ENTER    == 28          \* ecodes.KEY_ENTER
KEY_SPACE    == 57          \* ecodes.KEY_SPACE

Codes == {KEY_LEFTCTRL, KEY_A}

\* ecodes.KEY: code -> symbolic name
KEY == (KEY_LEFTCTRL :> "KEY_LEFTCTRL") @@ (KEY_A :> "KEY_A")
          @@ (KEY_L :> "KEY_L") @@ (KEY_LEFTALT :> "KEY_LEFTALT")

Names == {KEY[c] : c \in Codes}

\* InputManager._get_modifier_codes, restricted to the codes of the model
_get_modifier_codes == {KEY_LEFTCTRL, KEY_LEFTALT}

\* the callables a client registers; "bad" raises when it is called
Handlers == {"h1", "h2", "bad"}

Raises(h) == h = "bad"

Gestures == {"ctrl+alt+l"}

\* evdev.list_devices(): the device nodes of the machine, in order
list_devices == <<"/dev/input/event0", "/dev/input/event1">>

DevicePaths == {list_devices[i] : i \in DOMAIN list_devices}

WorkerIds == 1..MaxWorkers

None == 0           \* self.thread is None
Unstarted == -1     \* self.thread is a Thread whose start() raised

NoEvent == [type |-> "none", ks |-> "none", code |-> 0]

\* the raw events a device read can return
Events ==
    [type : {"EV_KEY"}, ks : {"down", "up", "hold"}, code : Codes]
        \cup {[type |-> "EV_SYN", ks |-> "none", code |-> 0]}

\* the event types and the callbacks the callers of the accessibility
\* manager register
EventTypes == {"keyboard", "focus"}
Callbacks == {"cb1", "cb2"}

Unborn == [pc |-> "unborn", dev |-> 0, ev |-> NoEvent, hi |-> 0]

\* the codes _is_keyboard_device looks for
ProbeCodes == {KEY_A, KEY_SPACE, KEY_ENTER}

\* the maps device.capabilities() returns: event type -> codes.  Every
\* device reports EV_SYN (0); it may report EV_KEY, with any of the probe
\* codes, KEY_LEFTCTRL and BTN_LEFT (272), and it may report EV_REL (2),
\* with any of REL_X (0) and REL_Y (1).
Capabilities ==
    {[t \in ({0} \cup (IF hasKey THEN {EV_KEY} ELSE {})
                 \cup (IF hasRel THEN {2} ELSE {}))
         |-> IF t = EV_KEY THEN keys ELSE IF t = 2 THEN rels ELSE {0}] :
        hasKey \in BOOLEAN, keys \in SUBSET (ProbeCodes \cup {KEY_LEFTCTRL, 272}),
        hasRel \in BOOLEAN, rels \in SUBSET {0, 1}}

\* no device was probed
NoProbe == [called |-> FALSE, raises |-> FALSE, capabilities |-> <<>>,
            propagated |-> FALSE, result |-> "none"]

\* the names of the actions a node offers
ActionNames == {"click", "press"}

\* the fields of an application summary
Fields == {"name", "pid", "role", "description"}

\* a child of the desktop: an accessible of role application, for which the
\* getter of one field may raise, or an accessible of another role
ChildKinds ==
    [role : {"application"}, fails : Fields \cup {"none"}]
        \cup {[role |-> "frame", fails |-> "none"]}

\* the state flags a node's state set is made of
StateTypes == {"FOCUSED", "VISIBLE", "ENABLED", "SENSITIVE"}

\* no query returned in the last step
NoAnswer ==
    [fn |-> "none",          \* the query
     called |-> FALSE,       \* it reached the service
     raised |-> FALSE,       \* a call of the service raised in it
     propagated |-> FALSE,   \* the exception reached the caller
     value |-> "none",       \* the node, text or bool it returned
     apps |-> <<>>,          \* the summaries it returned
     names |-> <<>>,         \* the action names it returned
     invoked |-> <<>>,       \* the indices it gave to do_action
     children |-> <<>>,      \* input: the children of the desktop
     actions |-> <<>>,       \* input: the action names of the node
     action_name |-> "none", \* input: the action asked for
     states |-> {}]          \* input: the state set of the node

\* no cleanup() has closed a device
NothingClosed == [attempted |-> {}, failed |-> {}]

VARIABLES
    configOk,            \* the imported config module accepts get_config(section, key, default)
    input_manager,       \* the module global _input_manager is not None
    initialized,         \* InputManager.initialized
    devices,             \* InputManager.devices
    running,             \* InputManager.running
    thread,              \* InputManager.thread
    key_handlers,        \* InputManager.key_handlers
    modifier_handlers,   \* InputManager.modifier_handlers
    gesture_handlers,    \* InputManager.gesture_handlers
    pressed_keys,        \* KeyState.pressed_keys
    modifiers,           \* KeyState.modifiers
    last_key_time,       \* KeyState.last_key_time
    workers,             \* the threads running _input_loop: position, device, event, handler index
    nEvents,             \* raw events read so far (the clock of the model)
    held,                \* the codes whose last event given to _handle_key_event of the
                         \* engine was a key-down (it handled no key-up of the code since)
    calls,               \* handler invocations, in order
    apiPc,               \* where the calling thread is: idle, or inside stop()'s join
    joinWaited,          \* seconds the pending join has waited
    op,                  \* the operation that returned in the last step ("none": no call returned)
    ret,                 \* its return value
    classified,          \* the device nodes that opened and classified as keyboards when
                         \* the initialize call of the last step ran
    closed,              \* the last cleanup() of the engine: the positions of self.devices
                         \* it called close() on, and those whose close() raised
    rejected,            \* the device nodes initialize() opened and _is_keyboard_device
                         \* rejected, on which close() has not been called: the engine
                         \* drops the object, a finalizer may or may not have run
    probe,               \* the last call of _is_keyboard_device: what the device reports,
                         \* and the verdict
    accessibility_manager,   \* the module global _accessibility_manager is not None
    acc_initialized,         \* AccessibilityManager.initialized
    root,                    \* AccessibilityManager.root is not None
    braille_display,         \* AccessibilityManager.braille_display is not None
    event_listeners,         \* AccessibilityManager.event_listeners, in insertion order
    keystroke_listeners,     \* the listeners the AT-SPI service holds, per callback
    atspi_connected,         \* Atspi.init() has run and Atspi.shutdown() has not
    aop,                     \* the accessibility operation that returned in the last step
    aret,                    \* its return value
    raisedIn,                \* the service call that raised inside it ("none": none did)
    answer                   \* the query that returned in the last step, what the service
                             \* did in it and what the caller got

kvars == <<pressed_keys, modifiers, last_key_time>>
hvars == <<key_handlers, modifier_handlers, gesture_handlers>>
ivars == <<input_manager, initialized, devices, running, thread,
           key_handlers, modifier_handlers, gesture_handlers,
           pressed_keys, modifiers, last_key_time,
           workers, nEvents, held, calls, apiPc, joinWaited, op, ret, classified,
           closed, rejected, probe>>
avars == <<accessibility_manager, acc_initialized, root, braille_display,
           event_listeners, keystroke_listeners, atspi_connected,
           aop, aret, raisedIn, answer>>
vars == <<configOk, ivars, avars>>

NoHandlers == [n \in Names |-> <<>>]
NoGestures == [g \in Gestures |-> <<>>]

RECURSIVE SumLen(_, _)
SumLen(f, S) ==
    IF S = {} THEN 0
    ELSE LET x == CHOOSE y \in S : TRUE IN Len(f[x]) + SumLen(f, S \ {x})

RegCount ==
    SumLen(key_handlers, Names) + SumLen(modifier_handlers, Names)
        + SumLen(gesture_handlers, Gestures)

Alive(w) == workers[w].pc \notin {"unborn", "dead"}

LiveWorkers == {w \in WorkerIds : Alive(w)}

\* threads of this manager (not of a manager the module global no longer holds)
OwnWorkers == {w \in WorkerIds : workers[w].pc \notin {"unborn", "dead", "orphan"}}

\* the devices of one enumeration that open and classify as keyboards (K),
\* in evdev.list_devices() order
Keyboards(K) == SelectSeq(list_devices, LAMBDA p : p \in K)

Init ==
    /\ configOk \in BOOLEAN
    /\ input_manager = FALSE
    /\ initialized = FALSE
    /\ devices = <<>>
    /\ running = FALSE
    /\ thread = None
    /\ key_handlers = NoHandlers
    /\ modifier_handlers = NoHandlers
    /\ gesture_handlers = NoGestures
    /\ pressed_keys = {}
    /\ modifiers = {}
    /\ last_key_time = 0
    /\ workers = [w \in WorkerIds |-> Unborn]
    /\ nEvents = 0
    /\ held = {}
    /\ calls = <<>>
    /\ apiPc = "idle"
    /\ joinWaited = 0
    /\ op = "none"
    /\ ret = "none"
    /\ classified = {}
    /\ closed = NothingClosed
    /\ rejected = {}
    /\ probe = NoProbe
    /\ accessibility_manager = FALSE
    /\ acc_initialized = FALSE
    /\ root = FALSE
    /\ braille_display = FALSE
    /\ event_listeners = <<>>
    /\ keystroke_listeners = [c \in Callbacks |-> 0]
    /\ atspi_connected = FALSE
    /\ aop = "none"
    /\ aret = "none"
    /\ raisedIn = "none"
    /\ answer = NoAnswer


(***************************************************************************)
(* The calling thread: the public operations of input_listener.            *)
(***************************************************************************)
Returns(o, r) == op' = o /\ ret' = r /\ classified' = {}

\* a step in which no call returns
NoReturn == op' = "none" /\ ret' = "none" /\ classified' = {}

\* initialize returns r, K being the device nodes that open and classify as
\* keyboards at the time of the call
InitReturns(o, r, K) == op' = o /\ ret' = r /\ classified' = K

\* InputManager.initialize on an engine whose device list is devs0: the config
\* lookups (which raise when the config module takes no arguments), the
\* enumeration (list_devices may raise, K are the paths that open and classify
\* as keyboards, O the paths that open and are rejected, the device object
\* being dropped without a close()) and the verdict.  initialized is only
\* ever set, never reset.
InitializeBody(devs0, init0, o) ==
    \E listRaises \in BOOLEAN, K \in SUBSET DevicePaths :
        IF ~configOk \/ listRaises
        THEN /\ devices' = devs0
             /\ initialized' = init0
             /\ rejected' = rejected
             /\ InitReturns(o, "False", IF listRaises /\ configOk THEN {} ELSE K)
        ELSE /\ Len(devs0 \o Keyboards(K)) <= MaxDevices
             /\ devices' = devs0 \o Keyboards(K)
             /\ \E O \in SUBSET (DevicePaths \ K) : rejected' = rejected \cup O
             /\ IF devices' = <<>>
                THEN initialized' = init0 /\ InitReturns(o, "False", K)
                ELSE initialized' = TRUE /\ InitReturns(o, "True", K)

\* InputManager.initialize called on the engine the module global holds
InputManager_initialize ==
    /\ apiPc = "idle"
    /\ input_manager
    /\ InitializeBody(devices, initialized, "InputManager.initialize")
    /\ UNCHANGED <<configOk, avars, held, probe, closed, input_manager, running, thread, hvars, kvars,
                   workers, nEvents, calls, apiPc, joinWaited>>

\* module-level initialize(): a fresh InputManager replaces the global, then
\* InputManager.initialize runs on it.  Threads of the replaced engine keep
\* running on the replaced object.
initialize ==
    /\ apiPc = "idle"
    /\ input_manager' = TRUE
    /\ running' = FALSE
    /\ thread' = None
    /\ key_handlers' = NoHandlers
    /\ modifier_handlers' = NoHandlers
    /\ gesture_handlers' = NoGestures
    /\ pressed_keys' = {}
    /\ modifiers' = {}
    /\ last_key_time' = 0
    /\ workers' = [w \in WorkerIds |->
                     IF w \in OwnWorkers THEN [Unborn EXCEPT !.pc = "orphan"]
                     ELSE workers[w]]
    /\ held' = {}
    /\ InitializeBody(<<>>, FALSE, "initialize")
    /\ UNCHANGED <<configOk, avars, probe, closed, nEvents, calls, apiPc, joinWaited>>

\* a thread was spawned by start(): the lowest unused identity
NewWorker == CHOOSE w \in WorkerIds :
                /\ workers[w].pc = "unborn"
                /\ \A v \in WorkerIds : workers[v].pc = "unborn" => w <= v

\* start() without its guard
StartUnguarded == TRUE

\* the guard of InputManager.start
StartAllowed == initialized

\* InputManager.start
start ==
    IF ~StartAllowed
    THEN /\ Returns("start", "False")
         /\ UNCHANGED <<running, thread, workers>>
    ELSE \E spawnFails \in BOOLEAN :
            IF spawnFails
            THEN /\ running' = FALSE
                 /\ thread' = Unstarted
                 /\ Returns("start", "False")
                 /\ UNCHANGED workers
            ELSE /\ \E w \in WorkerIds : workers[w].pc = "unborn"
                 /\ running' = TRUE
                 /\ thread' = NewWorker
                 /\ workers' = [workers EXCEPT ![NewWorker] =
                                    [Unborn EXCEPT !.pc = "loop"]]
                 /\ Returns("start", "True")

\* module-level listen_keys()
listen_keys ==
    /\ apiPc = "idle"
    /\ IF ~input_manager
       THEN Returns("start", "False") /\ UNCHANGED <<running, thread, workers>>
       ELSE start
    /\ UNCHANGED <<configOk, avars, held, probe, rejected, closed, input_manager, initialized, devices, hvars, kvars,
                   nEvents, calls, apiPc, joinWaited>>

\* a loop of closes that the first raising close() ends
CloseStopsAtError(n, R) == {i \in 1..n : \A j \in R : i <= j}

\* `for device in self.devices: try: device.close() except Exception: pass`:
\* the positions of a list of n devices close() is called on, when the
\* closes at the positions R raise
CloseAttempts(n, R) == 1..n

\* InputManager.cleanup after its stop(): close every device, clear the lists
CleanupRest ==
    /\ \E R \in SUBSET DOMAIN devices :
          closed' = [attempted |-> CloseAttempts(Len(devices), R), failed |-> R]
    /\ devices' = <<>>
    /\ key_handlers' = NoHandlers
    /\ modifier_handlers' = NoHandlers
    /\ gesture_handlers' = NoGestures
    /\ initialized' = FALSE

\* the first half of InputManager.stop, as called by o ("stop", "cleanup" or
\* the module-level "modcleanup"): clear the flag and, when a thread is
\* recorded, join it.  Joining a thread that was never started raises.
StopBegin(o) ==
    /\ running' = FALSE
    /\ IF thread \in WorkerIds
       THEN /\ apiPc' = o
            /\ joinWaited' = 0
            /\ NoReturn
            /\ UNCHANGED <<thread, devices, hvars, initialized, input_manager, closed>>
       ELSE /\ UNCHANGED <<thread, apiPc, joinWaited>>
            /\ IF o = "stop"
               THEN /\ Returns("stop", IF thread = Unstarted THEN "raised" ELSE "None")
                    /\ UNCHANGED <<devices, hvars, initialized, input_manager, closed>>
               ELSE /\ Returns("cleanup", "None")
                    /\ IF thread = Unstarted
                       THEN /\ closed' = NothingClosed
                            /\ UNCHANGED <<devices, hvars, initialized>>
                       ELSE CleanupRest
                    /\ input_manager' = (IF o = "modcleanup" THEN FALSE ELSE input_manager)

\* InputManager.stop
stop ==
    /\ apiPc = "idle"
    /\ input_manager
    /\ StopBegin("stop")
    /\ UNCHANGED <<configOk, avars, held, probe, rejected, kvars, workers, nEvents, calls>>

\* InputManager.cleanup
InputManager_cleanup ==
    /\ apiPc = "idle"
    /\ input_manager
    /\ StopBegin("cleanup")
    /\ UNCHANGED <<configOk, avars, held, probe, rejected, kvars, workers, nEvents, calls>>

\* module-level cleanup()
cleanup ==
    /\ apiPc = "idle"
    /\ input_manager
    /\ StopBegin("modcleanup")
    /\ UNCHANGED <<configOk, avars, held, probe, rejected, kvars, workers, nEvents, calls>>

\* a join without timeout
JoinForever(alive, waited) == ~alive

\* thread.join(timeout=1.0) is over: the thread ended, or the timeout elapsed
JoinDone(alive, waited) == ~alive \/ waited >= JoinTimeout

\* one second passes while the caller waits in join
Tick ==
    /\ apiPc # "idle"
    /\ joinWaited < JoinTimeout
    /\ joinWaited' = joinWaited + 1
    /\ UNCHANGED <<configOk, avars, held, probe, rejected, closed, input_manager, initialized, devices, running, thread,
                   hvars, kvars, workers, nEvents, calls, apiPc>>
    /\ NoReturn

\* join returns; stop() clears self.thread and the caller goes on
JoinReturns ==
    /\ apiPc # "idle"
    /\ JoinDone(Alive(thread), joinWaited)
    /\ thread' = None
    /\ apiPc' = "idle"
    /\ joinWaited' = 0
    /\ IF apiPc = "stop"
       THEN /\ Returns("stop", "None")
            /\ UNCHANGED <<devices, hvars, initialized, input_manager, closed>>
       ELSE /\ Returns("cleanup", "None")
            /\ CleanupRest
            /\ input_manager' = (IF apiPc = "modcleanup" THEN FALSE ELSE input_manager)
    /\ UNCHANGED <<configOk, avars, held, probe, rejected, running, kvars, workers, nEvents, calls>>

\* a registration that keeps one entry per callable
RegisteredOnce(l, h) ==
    IF \E i \in DOMAIN l : l[i] = h THEN l ELSE Append(l, h)

\* self.key_handlers[key].append(handler): the list after a registration
Registered(l, h) == Append(l, h)

\* register_key_handler (module level and method)
register_key_handler(n, h) ==
    /\ apiPc = "idle"
    /\ IF ~input_manager
       THEN Returns("register", "False") /\ UNCHANGED key_handlers
       ELSE /\ key_handlers' = [key_handlers EXCEPT ![n] = Registered(@, h)]
            /\ Returns("register", "True")
    /\ UNCHANGED <<configOk, avars, held, probe, rejected, closed, input_manager, initialized, devices, running, thread,
                   modifier_handlers, gesture_handlers, kvars, workers, nEvents,
                   calls, apiPc, joinWaited>>

\* register_modifier_handler (module level and method)
register_modifier_handler(n, h) ==
    /\ apiPc = "idle"
    /\ IF ~input_manager
       THEN Returns("register", "False") /\ UNCHANGED modifier_handlers
       ELSE /\ modifier_handlers' = [modifier_handlers EXCEPT ![n] = Registered(@, h)]
            /\ Returns("register", "True")
    /\ UNCHANGED <<configOk, avars, held, probe, rejected, closed, input_manager, initialized, devices, running, thread,
                   key_handlers, gesture_handlers, kvars, workers, nEvents,
                   calls, apiPc, joinWaited>>

\* register_gesture_handler (module level and method)
register_gesture_handler(g, h) ==
    /\ apiPc = "idle"
    /\ IF ~input_manager
       THEN Returns("register", "False") /\ UNCHANGED gesture_handlers
       ELSE /\ gesture_handlers' = [gesture_handlers EXCEPT ![g] = Registered(@, h)]
            /\ Returns("register", "True")
    /\ UNCHANGED <<configOk, avars, held, probe, rejected, closed, input_manager, initialized, devices, running, thread,
                   key_handlers, modifier_handlers, kvars, workers, nEvents,
                   calls, apiPc, joinWaited>>


(***************************************************************************)
(* The worker thread: InputManager._input_loop and what it calls.          *)
(***************************************************************************)
SetWorker(w, r) == workers' = [workers EXCEPT ![w] = r]

\* `while self.running:` and the start of `for device in self.devices:`;
\* leaving the loop runs `finally: self.running = False`
InputLoopHead(w) ==
    /\ workers[w].pc = "loop"
    /\ IF running
       THEN /\ devices # <<>>
            /\ SetWorker(w, [workers[w] EXCEPT !.pc = "read", !.dev = 1])
            /\ UNCHANGED running
       ELSE /\ SetWorker(w, [Unborn EXCEPT !.pc = "dead"])
            /\ running' = FALSE
    /\ UNCHANGED <<configOk, avars, held, probe, rejected, closed, input_manager, initialized, devices, thread, hvars,
                   kvars, nEvents, calls, apiPc, joinWaited>>
    /\ NoReturn

\* what the worker does with an event read_loop() yields: handle it when the
\* flag is set, otherwise go back to reading the same device
AfterRead(w, e) ==
    IF running /\ e.type = "EV_KEY"
    THEN [workers[w] EXCEPT !.pc = "pressed", !.ev = e]
    ELSE workers[w]

\* the keys down after event e, when it is one _handle_key_event is given
HeldAfter(e) ==
    IF running /\ e.type = "EV_KEY"
    THEN CASE e.ks = "down" -> held \cup {e.code}
           [] e.ks = "up"   -> held \ {e.code}
           [] OTHER         -> held
    ELSE held

\* device.read_loop() yields event e to worker w
ReadEvent(w, e) ==
    /\ workers[w].pc = "read"
    /\ workers[w].dev <= Len(devices)
    /\ nEvents' = nEvents + 1
    /\ held' = HeldAfter(e)
    /\ SetWorker(w, AfterRead(w, e))
    /\ UNCHANGED <<configOk, avars, probe, closed, rejected, input_manager, initialized, devices, running, thread,
                   hvars, kvars, calls, apiPc, joinWaited>>
    /\ NoReturn

\* device.read_loop() raises: log, sleep, next device of the for loop
ReadError(w) ==
    /\ workers[w].pc = "read"
    /\ SetWorker(w, IF workers[w].dev < Len(devices)
                    THEN [workers[w] EXCEPT !.dev = @ + 1]
                    ELSE [workers[w] EXCEPT !.pc = "loop", !.dev = 0])
    /\ UNCHANGED <<configOk, avars, held, probe, rejected, closed, input_manager, initialized, devices, running, thread,
                   hvars, kvars, nEvents, calls, apiPc, joinWaited>>
    /\ NoReturn

IsModifierEvent(e) == e.ks \in {"down", "up"} /\ e.code \in _get_modifier_codes

\* where _handle_key_event goes once a dispatch of event e is over
AfterModifierDispatch(e) == IF e.ks = "down" THEN "keyh" ELSE "time"

\* _handle_key_event, first update: pressed_keys.add / pressed_keys.discard
UpdatePressed(w) ==
    LET e == workers[w].ev IN
    /\ workers[w].pc = "pressed"
    /\ pressed_keys' = (CASE e.ks = "down" -> pressed_keys \cup {e.code}
                          [] e.ks = "up"   -> pressed_keys \ {e.code}
                          [] OTHER         -> pressed_keys)
    /\ SetWorker(w, CASE IsModifierEvent(e) -> [workers[w] EXCEPT !.pc = "modset"]
                      [] e.ks = "down" -> [workers[w] EXCEPT !.pc = "keyh", !.hi = 1]
                      [] e.ks = "up"   -> [workers[w] EXCEPT !.pc = "time"]
                      [] OTHER         -> [workers[w] EXCEPT !.pc = "read", !.ev = NoEvent])
    /\ UNCHANGED <<configOk, avars, held, probe, rejected, closed, input_manager, initialized, devices, running, thread,
                   hvars, modifiers, last_key_time, nEvents, calls, apiPc,
                   joinWaited>>
    /\ NoReturn

\* _handle_key_event, second update: modifiers.add / modifiers.discard
UpdateModifiers(w) ==
    LET e == workers[w].ev IN
    /\ workers[w].pc = "modset"
    /\ modifiers' = (IF e.ks = "down" THEN modifiers \cup {e.code}
                     ELSE modifiers \ {e.code})
    /\ SetWorker(w, [workers[w] EXCEPT !.pc = "modh", !.hi = 1])
    /\ UNCHANGED <<configOk, avars, held, probe, rejected, closed, input_manager, initialized, devices, running, thread,
                   hvars, pressed_keys, last_key_time, nEvents, calls, apiPc,
                   joinWaited>>
    /\ NoReturn

\* a dispatch loop starts at the first handler
StartIndex(pc) == IF pc \in {"modh", "keyh"} THEN 1 ELSE 0

\* a dispatch whose exception nothing catches: the thread ends
HandlerErrorKillsThread(h, i, here, after) ==
    IF Raises(h) THEN [pc |-> "dead", hi |-> 0] ELSE [pc |-> here, hi |-> i + 1]

\* the position of a dispatch loop after it called handler h at index i:
\* the exception of a raising handler is caught outside the for loop
AfterHandler(h, i, here, after) ==
    IF Raises(h) THEN [pc |-> after, hi |-> StartIndex(after)]
    ELSE [pc |-> here, hi |-> i + 1]

\* a dispatch that walks the list from its end
HandlersReversed(table, name) ==
    IF name \in DOMAIN table
    THEN [j \in 1..Len(table[name]) |-> table[name][Len(table[name]) + 1 - j]]
    ELSE <<>>

\* `if name in self.key_handlers: for handler in self.key_handlers[name]`:
\* the list a dispatch iterates over, empty when the name is no key of the table
HandlersFor(table, name) ==
    IF name \in DOMAIN table THEN table[name] ELSE <<>>

\* _check_gestures: its body is `pass`, it invokes no handler
_check_gestures(cs) == cs

\* the invocations recorded when a dispatch of the given kind has made the
\* invocations cs and is over: _check_gestures follows _trigger_key_handlers
AfterDispatch(kind, cs) == IF kind = "key" THEN _check_gestures(cs) ELSE cs

\* one iteration of the for loop of a dispatch over the live list hs
Dispatch(w, hs, kind, arg, here, after) ==
    LET i == workers[w].hi
        e == workers[w].ev
    IN IF i <= Len(hs)
       THEN LET next == AfterHandler(hs[i], i, here, after)
                made == Append(calls, [h |-> hs[i], kind |-> kind, name |-> KEY[e.code],
                                       arg |-> arg, n |-> nEvents, w |-> w,
                                       i |-> i, len |-> Len(hs),
                                       raised |-> Raises(hs[i])])
            IN  /\ calls' = IF next.pc = after THEN AfterDispatch(kind, made) ELSE made
                /\ SetWorker(w, [workers[w] EXCEPT !.pc = next.pc, !.hi = next.hi])
       ELSE /\ SetWorker(w, [workers[w] EXCEPT !.pc = after, !.hi = StartIndex(after)])
            /\ calls' = AfterDispatch(kind, calls)

\* _trigger_modifier_handlers(code, pressed)
_trigger_modifier_handlers(w) ==
    LET e == workers[w].ev IN
    /\ workers[w].pc = "modh"
    /\ Dispatch(w, HandlersFor(modifier_handlers, KEY[e.code]), "modifier",
                IF e.ks = "down" THEN "True" ELSE "False",
                "modh", AfterModifierDispatch(e))
    /\ UNCHANGED <<configOk, avars, held, probe, rejected, closed, input_manager, initialized, devices, running, thread,
                   hvars, kvars, nEvents, apiPc, joinWaited>>
    /\ NoReturn

\* _trigger_key_handlers(code), then _check_gestures (which does nothing)
_trigger_key_handlers(w) ==
    LET e == workers[w].ev IN
    /\ workers[w].pc = "keyh"
    /\ Dispatch(w, HandlersFor(key_handlers, KEY[e.code]), "key", "none", "keyh", "time")
    /\ UNCHANGED <<configOk, avars, held, probe, rejected, closed, input_manager, initialized, devices, running, thread,
                   hvars, kvars, nEvents, apiPc, joinWaited>>
    /\ NoReturn

\* _handle_key_event, last update: last_key_time, then back to read_loop
UpdateTime(w) ==
    LET e == workers[w].ev IN
    /\ workers[w].pc = "time"
    /\ last_key_time' = CASE e.ks = "down" -> nEvents
                           [] e.ks = "up"   -> 0
                           [] OTHER         -> last_key_time
    /\ SetWorker(w, [workers[w] EXCEPT !.pc = "read", !.ev = NoEvent])
    /\ UNCHANGED <<configOk, avars, held, probe, rejected, closed, input_manager, initialized, devices, running, thread,
                   hvars, pressed_keys, modifiers, nEvents, calls, apiPc,
                   joinWaited>>
    /\ NoReturn

\* the steps of a worker thread
Worker(w) ==
    \/ InputLoopHead(w)
    \/ ReadError(w)
    \/ UpdatePressed(w)
    \/ UpdateModifiers(w)
    \/ _trigger_modifier_handlers(w)
    \/ _trigger_key_handlers(w)
    \/ UpdateTime(w)

\* threads spawned so far
Spawned == {w \in WorkerIds : workers[w].pc # "unborn"}

(***************************************************************************)
(* Classification of a device: InputManager._is_keyboard_device.           *)
(***************************************************************************)
\* `except Exception: return False` of _is_keyboard_device
ProbeFailed == [propagated |-> FALSE, result |-> "False"]

\* a classification that asks for every probe code
HasEveryProbeCode(capabilities) ==
    /\ EV_KEY \in DOMAIN capabilities
    /\ \A code \in ProbeCodes : code \in capabilities[EV_KEY]

\* `ecodes.EV_KEY in capabilities and any(code in capabilities[ecodes.EV_KEY]
\* for code in [KEY_A, KEY_SPACE, KEY_ENTER])`
_is_keyboard_device(capabilities) ==
    /\ EV_KEY \in DOMAIN capabilities
    /\ \E code \in ProbeCodes : code \in capabilities[EV_KEY]

\* one call of _is_keyboard_device on a device: device.capabilities() raises,
\* or returns the given map
ProbeDevice(raises, capabilities) ==
    LET r == IF raises THEN ProbeFailed
             ELSE [propagated |-> FALSE,
                   result |-> IF _is_keyboard_device(capabilities)
                              THEN "True" ELSE "False"]
    IN  /\ probe' = [called |-> TRUE, raises |-> raises,
                     capabilities |-> IF raises THEN <<>> ELSE capabilities,
                     propagated |-> r.propagated, result |-> r.result]
        /\ Returns("_is_keyboard_device", r.result)
        /\ UNCHANGED <<configOk, avars, held, closed, rejected, input_manager, initialized, devices,
                       running, thread, hvars, kvars, workers, nEvents, calls, apiPc,
                       joinWaited>>

(***************************************************************************)
(* Classification scenario: devices of every capability map are probed.    *)
(***************************************************************************)
ClassifyNext ==
    \E raises \in BOOLEAN, capabilities \in Capabilities :
        ProbeDevice(raises, capabilities)

ClassifySpec == Init /\ [][ClassifyNext]_vars

(***************************************************************************)
(* Lifecycle scenario: every operation of the engine's life on one thread, *)
(* no handler registered, the devices deliver presses and releases of the  *)
(* left control key.                                                       *)
(***************************************************************************)
ControlEvents == {e \in Events : e.code = KEY_LEFTCTRL /\ e.ks \in {"down", "up"}}

Next ==
    \/ initialize
    \/ InputManager_initialize
    \/ listen_keys /\ Cardinality(Spawned') <= ScenWorkers
    \/ stop
    \/ InputManager_cleanup
    \/ cleanup
    \/ Tick
    \/ JoinReturns
    \/ \E w \in WorkerIds, e \in ControlEvents : nEvents < ScenEvents /\ ReadEvent(w, e)
    \/ \E w \in WorkerIds : Worker(w)

Spec == Init /\ [][Next]_vars

\* An enumeration in which every node that opens is classified as a keyboard:
\* the scenarios below run on such a machine.
NoneRejected == rejected' = rejected

(***************************************************************************)
(* Start scenario: the operations of the engine's life in any order, on    *)
(* devices that deliver no event: a worker waits in a read, or the read    *)
(* raises.                                                                 *)
(***************************************************************************)
StartNext ==
    \/ initialize /\ NoneRejected
    \/ InputManager_initialize /\ NoneRejected
    \/ listen_keys /\ Cardinality(Spawned') <= ScenWorkers
    \/ stop
    \/ InputManager_cleanup
    \/ cleanup
    \/ Tick
    \/ JoinReturns
    \/ \E w \in WorkerIds : InputLoopHead(w)
    \/ \E w \in WorkerIds : ReadError(w)

StartSpec == Init /\ [][StartNext]_vars

(***************************************************************************)
(* Stop scenario: one engine is initialized and started, stop() is called  *)
(* at any time.  Time passes while stop() waits in join, and a join whose  *)
(* thread ended or whose timeout elapsed returns: these two steps are      *)
(* fair.  Nothing obliges a device to deliver an event or a worker to run. *)
(***************************************************************************)
StopNext ==
    \/ ~input_manager /\ initialize /\ NoneRejected
    \/ listen_keys /\ Cardinality(Spawned') <= ScenWorkers
    \/ stop
    \/ Tick
    \/ JoinReturns
    \/ \E w \in WorkerIds, e \in ControlEvents : nEvents < ScenEvents /\ ReadEvent(w, e)
    \/ \E w \in WorkerIds : Worker(w)

StopSpec == Init /\ [][StopNext]_vars /\ WF_vars(Tick) /\ WF_vars(JoinReturns)

(***************************************************************************)
(* Dispatch scenario: one engine is initialized, handlers are registered   *)
(* at any time, capture is started and the devices deliver events.         *)
(***************************************************************************)
DispatchNext ==
    \/ ~input_manager /\ initialize /\ NoneRejected
    \/ listen_keys /\ Cardinality(Spawned') <= ScenWorkers
    \/ \E n \in Names, h \in Handlers :
          RegCount < DispatchRegs /\ register_key_handler(n, h)
    \/ \E n \in Names, h \in Handlers :
          RegCount < DispatchRegs /\ register_modifier_handler(n, h)
    \/ \E w \in WorkerIds, e \in Events : nEvents < ScenEvents /\ ReadEvent(w, e)
    \/ \E w \in WorkerIds : Worker(w)

DispatchSpec == Init /\ [][DispatchNext]_vars

(***************************************************************************)
(* Fault scenario: as the dispatch scenario, and every registered handler  *)
(* is one that raises.                                                     *)
(***************************************************************************)
FaultNext ==
    \/ ~input_manager /\ initialize /\ NoneRejected
    \/ listen_keys /\ Cardinality(Spawned') <= ScenWorkers
    \/ \E n \in Names : RegCount < FaultRegs /\ register_key_handler(n, "bad")
    \/ \E n \in Names : RegCount < FaultRegs /\ register_modifier_handler(n, "bad")
    \/ \E w \in WorkerIds, e \in Events : nEvents < ScenEvents /\ ReadEvent(w, e)
    \/ \E w \in WorkerIds : Worker(w)

FaultSpec == Init /\ [][FaultNext]_vars

(***************************************************************************)
(* Two-worker scenario: start() is called while capture is running.        *)
(***************************************************************************)
RaceNext ==
    \/ ~input_manager /\ initialize /\ NoneRejected
    \/ listen_keys
    \/ \E w \in WorkerIds, e \in Events : nEvents < RaceEvents /\ ReadEvent(w, e)
    \/ \E w \in WorkerIds : Worker(w)

RaceSpec == Init /\ [][RaceNext]_vars

(***************************************************************************)
(* Order scenario: handlers that return normally are registered at any     *)
(* time on one engine, capture is started once and the devices deliver     *)
(* key-downs.                                                              *)
(***************************************************************************)
DownEvents == {e \in Events : e.ks = "down"}

OrderNext ==
    \/ ~input_manager /\ initialize /\ NoneRejected
    \/ thread = None /\ listen_keys
    \/ \E n \in Names, h \in Handlers \ {"bad"} :
          RegCount < OrderRegs /\ register_key_handler(n, h)
    \/ \E n \in Names, h \in Handlers \ {"bad"} :
          RegCount < OrderRegs /\ register_modifier_handler(n, h)
    \/ \E w \in WorkerIds, e \in DownEvents : nEvents < OrderEvents /\ ReadEvent(w, e)
    \/ \E w \in WorkerIds : Worker(w)

OrderSpec == Init /\ [][OrderNext]_vars

(***************************************************************************)
(* Re-initialization scenario: key handlers are registered and             *)
(* initialize() is called in any order, capture is started and the         *)
(* devices deliver key-downs.                                              *)
(***************************************************************************)
ReinitNext ==
    \/ initialize /\ NoneRejected
    \/ \E n \in Names, h \in Handlers \ {"bad"} :
          RegCount < ReinitRegs /\ register_key_handler(n, h)
    \/ listen_keys /\ Cardinality(Spawned') <= ScenWorkers
    \/ \E w \in WorkerIds, e \in DownEvents : nEvents < ScenEvents /\ ReadEvent(w, e)
    \/ \E w \in WorkerIds : Worker(w)

ReinitSpec == Init /\ [][ReinitNext]_vars

(***************************************************************************)
(* Two-device scenario: one engine is initialized and capture is started   *)
(* once.  The first device of the list delivers no event; every other      *)
(* device has events to deliver whenever it is read.  A read may raise.    *)
(* The worker's own steps and the delivery by a device that is read are    *)
(* fair; nothing obliges a read to raise.                                  *)
(***************************************************************************)
\* the steps a worker takes without waiting for a device
WorkerRuns(w) ==
    \/ InputLoopHead(w)
    \/ UpdatePressed(w)
    \/ UpdateModifiers(w)
    \/ _trigger_modifier_handlers(w)
    \/ _trigger_key_handlers(w)
    \/ UpdateTime(w)

\* a device after the first of the list yields an event to the worker reading it
LaterDeviceDelivers ==
    \E w \in WorkerIds, e \in Events :
        /\ workers[w].dev > 1
        /\ nEvents < TwoDevEvents
        /\ ReadEvent(w, e)

TwoDeviceNext ==
    \/ ~input_manager /\ initialize /\ NoneRejected
    \/ thread = None /\ listen_keys
    \/ LaterDeviceDelivers
    \/ \E w \in WorkerIds : ReadError(w)
    \/ \E w \in WorkerIds : WorkerRuns(w)

TwoDeviceSpec ==
    /\ Init
    /\ [][TwoDeviceNext]_vars
    /\ WF_vars(LaterDeviceDelivers)
    /\ WF_vars(\E w \in WorkerIds : WorkerRuns(w))

(***************************************************************************)
(* Modifier scenario: modifier handlers are registered on one engine       *)
(* before any event is read, capture is started once and the devices       *)
(* deliver downs and ups of the left control key in any order.             *)
(***************************************************************************)
ModifierNext ==
    \/ ~input_manager /\ initialize /\ NoneRejected
    \/ thread = None /\ listen_keys
    \/ \E n \in Names, h \in Handlers \ {"bad"} :
          /\ nEvents = 0
          /\ RegCount < ModifierRegs
          /\ register_modifier_handler(n, h)
    \/ \E w \in WorkerIds, e \in ControlEvents : nEvents < ModifierEvs /\ ReadEvent(w, e)
    \/ \E w \in WorkerIds : Worker(w)

ModifierSpec == Init /\ [][ModifierNext]_vars

(***************************************************************************)
(* Gesture scenario: gesture handlers are registered on one engine before  *)
(* any key is pressed, then capture runs and the keys of the chord         *)
(* Ctrl+Alt+L, and the unrelated key A, go down in any order.              *)
(***************************************************************************)
\* the chord named in _check_gestures
GestureKeys == {KEY_LEFTCTRL, KEY_LEFTALT, KEY_L}

GestureEvents ==
    [type : {"EV_KEY"}, ks : {"down"}, code : GestureKeys \cup {KEY_A}]

GestureNext ==
    \/ ~input_manager /\ initialize /\ NoneRejected
    \/ listen_keys /\ Cardinality(Spawned') <= ScenWorkers
    \/ \E g \in Gestures, h \in Handlers :
          /\ nEvents = 0
          /\ RegCount < GestureRegs
          /\ register_gesture_handler(g, h)
    \/ \E w \in WorkerIds, e \in GestureEvents : nEvents < GestureEvs /\ ReadEvent(w, e)
    \/ \E w \in WorkerIds : Worker(w)

GestureSpec == Init /\ [][GestureNext]_vars

(***************************************************************************)
(* The accessibility manager (atspi_backend).  Every call into the AT-SPI  *)
(* service may raise; the methods catch the exception where the code does. *)
(* event_listeners is the dict as a sequence of its items, in insertion    *)
(* order: [event_type, listeners].                                         *)
(***************************************************************************)
\* the position of event_type in the dict, 0 when it is not a key
KeyIndex(el, t) ==
    IF \E i \in DOMAIN el : el[i].event_type = t
    THEN CHOOSE i \in DOMAIN el : el[i].event_type = t
    ELSE 0

\* the listeners in the order cleanup() iterates over them
RECURSIVE AllListeners(_)
AllListeners(el) ==
    IF el = <<>> THEN <<>> ELSE el[1].listeners \o AllListeners(Tail(el))

RECURSIVE Total(_, _)
Total(f, S) ==
    IF S = {} THEN 0
    ELSE LET x == CHOOSE y \in S : TRUE IN f[x] + Total(f, S \ {x})

\* the number of listeners the service holds
ServiceCount == Total(keystroke_listeners, Callbacks)

\* the position of the first occurrence of cb in a list, 0 when absent
FirstIndex(l, cb) ==
    IF \E i \in DOMAIN l : l[i] = cb
    THEN CHOOSE i \in DOMAIN l : l[i] = cb /\ \A j \in 1..(i - 1) : l[j] # cb
    ELSE 0

\* a removal of every occurrence of cb
RemoveAll(l, cb) == SelectSeq(l, LAMBDA x : x # cb)

\* list.remove(cb)
Remove(l, cb) ==
    LET i == FirstIndex(l, cb)
    IN  [j \in 1..(Len(l) - 1) |-> IF j < i THEN l[j] ELSE l[j + 1]]

\* the service's listeners after Atspi.deregister_keystroke_listener on each
\* callback of the list l
RECURSIVE Deregistered(_, _)
Deregistered(ks, l) ==
    IF l = <<>> THEN ks
    ELSE Deregistered([ks EXCEPT ![Head(l)] = IF @ > 0 THEN @ - 1 ELSE 0], Tail(l))

AReturns(o, r, x) == aop' = o /\ aret' = r /\ raisedIn' = x /\ answer' = NoAnswer

\* AccessibilityManager.initialize on a manager whose fields are root0,
\* braille0, init0
AccInitializeBody(root0, braille0, init0, o) ==
    \E initRaises \in BOOLEAN, desktopRaises \in BOOLEAN, brailleEnabled \in BOOLEAN :
        IF initRaises
        THEN /\ atspi_connected' = atspi_connected
             /\ root' = root0 /\ braille_display' = braille0
             /\ acc_initialized' = init0
             /\ AReturns(o, "False", "init")
        ELSE /\ atspi_connected' = TRUE
             /\ IF desktopRaises
                THEN /\ root' = root0 /\ braille_display' = braille0
                     /\ acc_initialized' = init0
                     /\ AReturns(o, "False", "get_desktop")
                ELSE /\ root' = TRUE
                     /\ IF ~configOk
                        THEN /\ braille_display' = braille0
                             /\ acc_initialized' = init0
                             /\ AReturns(o, "False", "get_config")
                        ELSE /\ braille_display' = (braille0 \/ brailleEnabled)
                             /\ acc_initialized' = TRUE
                             /\ AReturns(o, "True", "none")

AccessibilityManager_initialize ==
    /\ accessibility_manager
    /\ AccInitializeBody(root, braille_display, acc_initialized,
                         "AccessibilityManager.initialize")
    /\ UNCHANGED <<configOk, ivars, accessibility_manager, event_listeners,
                   keystroke_listeners>>

\* the module function: a new AccessibilityManager replaces the global one
atspi_initialize ==
    /\ accessibility_manager' = TRUE
    /\ event_listeners' = <<>>
    /\ AccInitializeBody(FALSE, FALSE, FALSE, "initialize")
    /\ UNCHANGED <<configOk, ivars, keystroke_listeners>>

\* the module function and the method it forwards to
register_event_listener(t, cb) ==
    IF ~accessibility_manager
    THEN /\ AReturns("register_event_listener", "False", "none")
         /\ UNCHANGED <<configOk, ivars, accessibility_manager, acc_initialized, root,
                        braille_display, event_listeners, keystroke_listeners,
                        atspi_connected>>
    ELSE /\ LET i == KeyIndex(event_listeners, t)
            IN  event_listeners' =
                    IF i = 0
                    THEN Append(event_listeners,
                                [event_type |-> t, listeners |-> <<cb>>])
                    ELSE [event_listeners EXCEPT ![i].listeners = Append(@, cb)]
         /\ \E registerRaises \in BOOLEAN :
               IF registerRaises
               THEN /\ keystroke_listeners' = keystroke_listeners
                    /\ AReturns("register_event_listener", "False", "register")
               ELSE /\ keystroke_listeners' =
                           [keystroke_listeners EXCEPT ![cb] = @ + 1]
                    /\ AReturns("register_event_listener", "True", "none")
         /\ UNCHANGED <<configOk, ivars, accessibility_manager, acc_initialized, root,
                        braille_display, atspi_connected>>

\* a test of the event type alone
TypeRegistered(el, t, cb) == KeyIndex(el, t) # 0

\* `event_type in self.event_listeners and callback in
\* self.event_listeners[event_type]`
IsRegistered(el, t, cb) ==
    /\ KeyIndex(el, t) # 0
    /\ FirstIndex(el[KeyIndex(el, t)].listeners, cb) # 0

unregister_event_listener(t, cb) ==
    LET i == KeyIndex(event_listeners, t)
        present == IsRegistered(event_listeners, t, cb)
    IN  IF ~accessibility_manager \/ ~present
        THEN /\ AReturns("unregister_event_listener", "False", "none")
             /\ UNCHANGED <<configOk, ivars, accessibility_manager, acc_initialized,
                            root, braille_display, event_listeners,
                            keystroke_listeners, atspi_connected>>
        ELSE /\ event_listeners' =
                    [event_listeners EXCEPT ![i].listeners = Remove(@, cb)]
             /\ \E deregisterRaises \in BOOLEAN :
                   IF deregisterRaises
                   THEN /\ keystroke_listeners' = keystroke_listeners
                        /\ AReturns("unregister_event_listener", "False", "deregister")
                   ELSE /\ keystroke_listeners' =
                               Deregistered(keystroke_listeners, <<cb>>)
                        /\ AReturns("unregister_event_listener", "True", "none")
             /\ UNCHANGED <<configOk, ivars, accessibility_manager, acc_initialized,
                            root, braille_display, atspi_connected>>

\* AccessibilityManager.cleanup: n listeners are de-registered before a
\* de-registration raises (all of them when none does)
AccCleanupBody(o) ==
    LET all == AllListeners(event_listeners)
    IN  \E n \in 0..Len(all), shutdownRaises \in BOOLEAN :
            /\ keystroke_listeners' =
                   Deregistered(keystroke_listeners, SubSeq(all, 1, n))
            /\ IF n < Len(all)
               THEN /\ UNCHANGED <<event_listeners, atspi_connected, acc_initialized,
                                   root, braille_display>>
                    /\ AReturns(o, "None", "deregister")
               ELSE /\ event_listeners' = <<>>
                    /\ IF shutdownRaises
                       THEN /\ UNCHANGED <<atspi_connected, acc_initialized, root,
                                           braille_display>>
                            /\ AReturns(o, "None", "shutdown")
                       ELSE /\ atspi_connected' = FALSE
                            /\ acc_initialized' = FALSE
                            /\ root' = FALSE
                            /\ braille_display' = FALSE
                            /\ AReturns(o, "None", "none")

AccessibilityManager_cleanup ==
    /\ accessibility_manager
    /\ AccCleanupBody("AccessibilityManager.cleanup")
    /\ UNCHANGED <<configOk, ivars, accessibility_manager>>

\* the module function: the global is dropped whatever cleanup() did
atspi_cleanup ==
    IF accessibility_manager
    THEN /\ AccCleanupBody("cleanup")
         /\ accessibility_manager' = FALSE
         /\ UNCHANGED <<configOk, ivars>>
    ELSE /\ AReturns("cleanup", "None", "none")
         /\ UNCHANGED <<configOk, ivars, accessibility_manager, acc_initialized, root,
                        braille_display, event_listeners, keystroke_listeners,
                        atspi_connected>>

(***************************************************************************)
(* Accessibility scenario: the life of the accessibility manager, with     *)
(* listeners registered and unregistered at any time.                      *)
(***************************************************************************)
AtspiNext ==
    \/ atspi_initialize
    \/ AccessibilityManager_initialize
    \/ \E t \in EventTypes, cb \in Callbacks :
          /\ Len(AllListeners(event_listeners)) < AtspiRegs
          /\ ServiceCount < AtspiRegs
          /\ register_event_listener(t, cb)
    \/ \E t \in EventTypes, cb \in Callbacks : unregister_event_listener(t, cb)
    \/ AccessibilityManager_cleanup
    \/ atspi_cleanup

AtspiSpec == Init /\ [][AtspiNext]_vars

(***************************************************************************)
(* The queries of atspi_backend: the module functions get_focused_node,    *)
(* get_node_at_point and get_application_list with the methods they        *)
(* forward to, and the methods of AccessibilityNode.  What the AT-SPI      *)
(* service does in a call is an input of the call.                         *)
(***************************************************************************)
\* an exception that nothing catches
Unhandled(fallback) == [propagated |-> TRUE, result |-> "exception"]

\* `except Exception:` of a query method: the exception ends there and the
\* method returns its fallback value
Except(fallback) == [propagated |-> FALSE, result |-> fallback]

\* the manager methods called through the module global _accessibility_manager
ManagerQueries == {"get_focused_node", "get_node_at_point", "get_application_list"}

\* the query fn has returned (or raised): its inputs, what the service did
\* and what the caller got
Answered(a) ==
    /\ answer' = a
    /\ aop' = a.fn
    /\ aret' = "none"
    /\ raisedIn' = "none"
    /\ UNCHANGED <<configOk, ivars, accessibility_manager, acc_initialized, root,
                   braille_display, event_listeners, keystroke_listeners,
                   atspi_connected>>

\* AccessibilityNode.__init__ on what a lookup of the service returned:
\* found is "raises" (the lookup raised), "nothing" (it returned None) or
\* "accessible"; nodeRaises: a getter called by the constructor raises
NodeLookup(fn, found, nodeRaises) ==
    LET raised == found = "raises" \/ (found = "accessible" /\ nodeRaises)
        r == IF raised THEN Except("None")
             ELSE [propagated |-> FALSE,
                   result |-> IF found = "accessible" THEN "node" ELSE "None"]
    IN  [NoAnswer EXCEPT !.fn = fn, !.called = TRUE, !.raised = raised,
                         !.propagated = r.propagated, !.value = r.result]

\* the module function returns early when the global is None
NoManager(fn, fallback) == [NoAnswer EXCEPT !.fn = fn, !.value = fallback]

\* get_focused_node: Atspi.get_focused(), then AccessibilityNode(focused)
get_focused_node ==
    \E found \in {"raises", "nothing", "accessible"}, nodeRaises \in BOOLEAN :
        Answered(IF ~accessibility_manager
                 THEN NoManager("get_focused_node", "None")
                 ELSE NodeLookup("get_focused_node", found, nodeRaises))

\* get_node_at_point: Atspi.get_desktop(0).get_accessible_at_point(x, y, SCREEN),
\* then AccessibilityNode(accessible)
get_node_at_point ==
    \E found \in {"raises", "nothing", "accessible"}, nodeRaises \in BOOLEAN :
        Answered(IF ~accessibility_manager
                 THEN NoManager("get_node_at_point", "None")
                 ELSE NodeLookup("get_node_at_point", found, nodeRaises))

\* the for loop of get_application_list over the children of the desktop,
\* from position j on, apps being the summaries appended so far (a summary
\* is the position of its application).  A child of another role is passed
\* over; a getter that raises ends the loop.
RECURSIVE AppListFrom(_, _, _)
AppListFrom(children, j, apps) ==
    IF j > Len(children) THEN [raised |-> FALSE, apps |-> apps]
    ELSE IF children[j].role # "application" THEN AppListFrom(children, j + 1, apps)
    ELSE IF children[j].fails # "none" THEN [raised |-> TRUE, apps |-> apps]
    ELSE AppListFrom(children, j + 1, Append(apps, j))

\* get_application_list on a desktop with the given children
get_application_list(children) ==
    Answered(IF ~accessibility_manager
             THEN [NoAnswer EXCEPT !.fn = "get_application_list"]
             ELSE LET loop == AppListFrom(children, 1, <<>>)
                      r == IF loop.raised THEN Except(<<>>)
                           ELSE [propagated |-> FALSE, result |-> loop.apps]
                  IN  [NoAnswer EXCEPT !.fn = "get_application_list",
                                       !.called = TRUE,
                                       !.children = children,
                                       !.raised = loop.raised,
                                       !.propagated = r.propagated,
                                       !.apps = r.result])

\* AccessibilityNode.get_text: found is what self.accessible.get_text() does
get_text ==
    \E found \in {"raises", "nothing", "text"} :
        LET r == IF found = "raises" THEN Except("")
                 ELSE [propagated |-> FALSE,
                       result |-> IF found = "text" THEN "text" ELSE ""]
        IN  Answered([NoAnswer EXCEPT !.fn = "get_text", !.called = TRUE,
                                      !.raised = (found = "raises"),
                                      !.propagated = r.propagated,
                                      !.value = r.result])

\* a predicate of AccessibilityNode on the state set the constructor stored
\* has returned result
StatePredicate(fn, states, result) ==
    Answered([NoAnswer EXCEPT !.fn = fn, !.states = states,
                              !.value = IF result THEN "True" ELSE "False"])

\* AccessibilityNode.is_focused
is_focused(states) == StatePredicate("is_focused", states, "FOCUSED" \in states)

\* AccessibilityNode.is_visible
is_visible(states) == StatePredicate("is_visible", states, "VISIBLE" \in states)

\* AccessibilityNode.is_enabled
is_enabled(states) == StatePredicate("is_enabled", states, ~("SENSITIVE" \in states))

\* the action interface of a node: ifaceRaises (get_action_iface() or
\* get_actions() raises), or the names of its actions, of which the one at
\* position failAt raises in get_name() (0: none does)
ActionIface(actions) ==
    [ifaceRaises : BOOLEAN, failAt : 0..Len(actions)]

\* AccessibilityNode.get_actions
get_actions(actions) ==
    \E s \in ActionIface(actions) :
        LET raised == s.ifaceRaises \/ s.failAt # 0
            r == IF raised THEN Except(<<>>)
                 ELSE [propagated |-> FALSE, result |-> actions]
        IN  Answered([NoAnswer EXCEPT !.fn = "get_actions", !.called = TRUE,
                                      !.actions = actions,
                                      !.raised = raised,
                                      !.propagated = r.propagated,
                                      !.names = r.result])

\* a search for the last action of the name
LastMatch(actions, action_name, upto) ==
    IF \E p \in 1..upto : actions[p] = action_name
    THEN CHOOSE p \in 1..upto :
            actions[p] = action_name /\ \A q \in (p + 1)..upto : actions[q] # action_name
    ELSE 0

\* `for i, action in enumerate(actions): if action.get_name() == action_name`:
\* the position of the first action of the name among the first upto
\* actions, 0 when there is none
FirstMatch(actions, action_name, upto) ==
    IF \E p \in 1..upto : actions[p] = action_name
    THEN CHOOSE p \in 1..upto :
            actions[p] = action_name /\ \A q \in 1..(p - 1) : actions[q] # action_name
    ELSE 0

\* enumerate() counts from 0: the index do_action is given for position p
ActionIndex(p) == p - 1

\* AccessibilityNode.perform_action(action_name): the loop stops at the
\* first match and calls do_action(i), or at the first get_name() that raises
perform_action(actions, action_name) ==
    \E s \in ActionIface(actions), doRaises \in BOOLEAN :
        LET upto == IF s.failAt = 0 THEN Len(actions) ELSE s.failAt - 1
            p == IF s.ifaceRaises THEN 0 ELSE FirstMatch(actions, action_name, upto)
            raised == \/ s.ifaceRaises
                      \/ (p = 0 /\ s.failAt # 0)
                      \/ (p # 0 /\ doRaises)
            r == IF raised THEN Except("False")
                 ELSE [propagated |-> FALSE,
                       result |-> IF p # 0 THEN "True" ELSE "False"]
        IN  Answered([NoAnswer EXCEPT !.fn = "perform_action", !.called = TRUE,
                                      !.actions = actions,
                                      !.action_name = action_name,
                                      !.invoked = IF p # 0 THEN <<ActionIndex(p)>>
                                                  ELSE <<>>,
                                      !.raised = raised,
                                      !.propagated = r.propagated,
                                      !.value = r.result])

\* the sequences of at most n elements of S
SeqsUpTo(S, n) == UNION {[1..k -> S] : k \in 0..n}

(***************************************************************************)
(* Query scenario: the manager is initialized and cleaned up at any time,  *)
(* and every query is called at any time on a service that answers or      *)
(* raises.                                                                 *)
(***************************************************************************)
QueryNext ==
    \/ atspi_initialize
    \/ atspi_cleanup
    \/ get_focused_node
    \/ get_node_at_point
    \/ \E children \in SeqsUpTo(ChildKinds, QueryApps) : get_application_list(children)
    \/ get_text
    \/ \E actions \in SeqsUpTo(ActionNames, QueryActions) : get_actions(actions)
    \/ \E actions \in SeqsUpTo(ActionNames, QueryActions),
          action_name \in ActionNames \cup {"Click"} :
          perform_action(actions, action_name)

QuerySpec == Init /\ [][QueryNext]_vars

(***************************************************************************)
(* Listing scenario: the applications of a desktop of three children are   *)
(* listed, on a manager that is initialized and cleaned up at any time.    *)
(***************************************************************************)
ListingNext ==
    \/ atspi_initialize
    \/ atspi_cleanup
    \/ \E children \in SeqsUpTo(ChildKinds, ListingApps) : get_application_list(children)

ListingSpec == Init /\ [][ListingNext]_vars

(***************************************************************************)
(* Node state scenario: the focused node is looked up on a manager that is *)
(* initialized and cleaned up at any time, and the three state predicates  *)
(* are asked of nodes with any state set.                                  *)
(***************************************************************************)
NodeStateNext ==
    \/ atspi_initialize
    \/ atspi_cleanup
    \/ get_focused_node
    \/ \E states \in SUBSET StateTypes : is_focused(states)
    \/ \E states \in SUBSET StateTypes : is_visible(states)
    \/ \E states \in SUBSET StateTypes : is_enabled(states)

NodeStateSpec == Init /\ [][NodeStateNext]_vars

(***************************************************************************)
(* Claims.                                                                 *)
(***************************************************************************)
\* the positions of a worker inside _handle_key_event
HandlingPcs == {"pressed", "modset", "modh", "keyh", "time"}

\* no worker is in the middle of an event: every event read has been
\* completely processed
NoEventInProgress == \A w \in WorkerIds : workers[w].pc \notin HandlingPcs

\* C1: after every completely processed raw key event, the modifiers held
\* are a subset of the keys pressed.
C1_ModifiersSubsetPressed ==
    NoEventInProgress => modifiers \subseteq pressed_keys


\* the live list a worker in a dispatch loop iterates over
DispatchList(w) ==
    IF workers[w].pc = "modh" THEN modifier_handlers[KEY[workers[w].ev.code]]
    ELSE IF workers[w].pc = "keyh" THEN key_handlers[KEY[workers[w].ev.code]]
    ELSE <<>>

\* C2: in one dispatch, a handler that raises does not prevent the handlers
\* registered after it from being invoked: after the call of a raising
\* handler that is not the last of its list, the dispatch goes on with
\* the next handler.
C2_RaisingHandlerDoesNotStopDispatch ==
    [][\A w \in WorkerIds :
          (/\ workers[w].pc \in {"modh", "keyh"}
           /\ workers'[w] # workers[w]
           /\ workers[w].hi < Len(DispatchList(w))
           /\ Raises(DispatchList(w)[workers[w].hi]))
          => (/\ workers'[w].pc = workers[w].pc
              /\ workers'[w].hi = workers[w].hi + 1)]_vars

\* a handler raised during a dispatch
HandlerRaised == \E i \in DOMAIN calls : calls[i].raised

\* worker w called a handler in this step, and the handler raised
RaisedIn(w) ==
    /\ Len(calls') = Len(calls) + 1
    /\ calls'[Len(calls')].raised
    /\ calls'[Len(calls')].w = w

C4_SecondInitializeKeepsListeners ==
    [][(accessibility_manager /\ acc_initialized
            /\ aop' = "initialize" /\ aret' = "True")
          => (event_listeners' = event_listeners
                /\ keystroke_listeners' = keystroke_listeners)]_vars

\* C5: initialize() on an engine that is already initialized returns
\* success and leaves the device list, the registered handlers and the
\* running workers of the engine unchanged (stated for the calls that
\* return success).
C5_SecondInitializeChangesNothing ==
    [][(/\ input_manager
        /\ initialized
        /\ op' \in {"initialize", "InputManager.initialize"}
        /\ ret' = "True")
       => (/\ devices' = devices
           /\ hvars' = hvars
           /\ OwnWorkers' = OwnWorkers)]_vars

\* C6: when AccessibilityManager.cleanup() returns, with every service call
\* having succeeded or a de-registration having failed, the manager is
\* uninitialized and holds no listener registration.
C6_CleanupLeavesNothing ==
    [][(aop' = "AccessibilityManager.cleanup" /\ raisedIn' \in {"none", "deregister"})
          => (~acc_initialized' /\ AllListeners(event_listeners') = <<>>)]_vars

\* C7: stop() always returns: while it waits, the stop flag is cleared, and
\* the wait ends, even when the worker stays blocked in a device read.
C7_StopReturns ==
    /\ [](apiPc = "stop" => ~running)
    /\ (apiPc = "stop") ~> (apiPc = "idle" /\ op = "stop")

\* C7 witness: stop() has returned while the worker it waited for is still
\* blocked in the device read (the join timed out)
C7_Witness ==
    /\ op = "stop"
    /\ ret = "None"
    /\ apiPc = "idle"
    /\ ~running
    /\ \E w \in WorkerIds : workers[w].pc = "read"

\* C8: once stop() has cleared the running flag, a worker blocked in a
\* device read that gets an event leaves the read loop and terminates.
C8_StoppedWorkerLeavesReadLoop ==
    [][(~running /\ thread # Unstarted /\ nEvents' = nEvents + 1)
       => \E w \in WorkerIds :
             workers[w].pc = "read" /\ workers'[w].pc \in {"loop", "dead"}]_vars

\* C9: after a successful start() the engine runs one worker per device of
\* its device list.
C9_OneWorkerPerDevice ==
    (op = "start" /\ ret = "True") => Cardinality(OwnWorkers) = Len(devices)

\* C10: start() on an engine that is not initialized returns failure,
\* spawns no worker and leaves running false.
C10_StartRequiresInitialize ==
    [][(op' = "start" /\ ~(input_manager /\ initialized))
       => (/\ ret' = "False"
           /\ workers' = workers
           /\ thread' = thread
           /\ ~running
           /\ ~running')]_vars

\* C10 witness: start() has just failed on an engine that had been
\* initialized and started, and was cleaned up since
C10_Witness ==
    /\ op = "start"
    /\ ret = "False"
    /\ input_manager
    /\ ~initialized
    /\ Spawned # {}
    /\ ~running

\* C11: initialize() of the capture engine fails exactly when no enumerated
\* device classifies as a keyboard: with a keyboard present it returns
\* success and marks the engine initialized, with none it fails.
C11_OnlyFailureIsNoKeyboard ==
    [][(op' \in {"initialize", "InputManager.initialize"})
          => /\ (classified' = {}) <=> (ret' = "False")
             /\ (ret' = "True") => initialized']_vars

\* the names of the modifier codes
ModifierNames == {KEY[c] : c \in _get_modifier_codes}

\* C12: a key event of a modifier code invokes modifier handlers only, and a
\* key event of any other code invokes key handlers only: every recorded
\* invocation of a key handler is for a non-modifier name, and every
\* invocation of a modifier handler is for a modifier name.
C12_ModifierXorKeyHandlers ==
    \A i \in DOMAIN calls :
        (calls[i].kind = "key") <=> (calls[i].name \notin ModifierNames)

\* C13: after raw events in which every key-down was followed by a key-up
\* of the same code, all of them completely processed, pressed_keys and
\* modifiers are both empty.
C13_AllReleasedLeavesNothingPressed ==
    (NoEventInProgress /\ held = {}) => (pressed_keys = {} /\ modifiers = {})

\* the invocations of gesture handlers recorded so far
GestureCalls == {i \in DOMAIN calls : calls[i].kind = "gesture"}

\* C14: a gesture handler registered for {LeftCtrl, LeftAlt, L} before the
\* keys go down has been invoked exactly once when the three keys are held
\* and their key-downs are completely processed.
C14_GestureFiresOnce ==
    (/\ NoEventInProgress
     /\ Len(gesture_handlers["ctrl+alt+l"]) = 1
     /\ GestureKeys \subseteq held
     /\ GestureKeys \subseteq pressed_keys)
    => Cardinality(GestureCalls) = 1

\* C15: at every instant, also in the middle of an event, a reader of the
\* key state sees modifiers within pressed_keys (stated for an engine with
\* a single worker, the only writer).
C15_ReaderNeverSeesModifierNotPressed ==
    (Cardinality(Spawned) <= 1) => modifiers \subseteq pressed_keys

\* two recorded invocations belong to the same dispatch
SameDispatch(a, b) ==
    /\ calls[a].n = calls[b].n
    /\ calls[a].w = calls[b].w
    /\ calls[a].kind = calls[b].kind

\* C16: a dispatch invokes the handlers that were in the list when it
\* began: no invocation of a dispatch is of an entry beyond the length the
\* list had at an earlier invocation of the same dispatch.
C16_DispatchUsesSnapshot ==
    \A a, b \in DOMAIN calls :
        (a < b /\ SameDispatch(a, b)) => calls[b].i <= calls[a].len

\* the handler table a recorded invocation was dispatched from
TableOf(c) == IF c.kind = "key" THEN key_handlers ELSE modifier_handlers

\* a registration step appends to the end of one list and leaves the other
\* entries of the tables where they are
AppendOnly(old, new) ==
    \A n \in Names :
        \/ new[n] = old[n]
        \/ \E h \in Handlers : new[n] = Append(old[n], h)

\* C17: within one dispatch the handlers are invoked in the order of their
\* registration: registrations append to the list of their name, a dispatch
\* invokes entries of increasing position, and the handler it invokes at a
\* position is the one registered at that position.
C17_InvocationFollowsRegistrationOrder ==
    /\ [][/\ AppendOnly(key_handlers, key_handlers')
          /\ AppendOnly(modifier_handlers, modifier_handlers')]_vars
    /\ [](\A a, b \in DOMAIN calls :
             (a < b /\ SameDispatch(a, b)) => calls[a].i < calls[b].i)
    /\ [](\A a \in DOMAIN calls :
             /\ calls[a].i \in DOMAIN TableOf(calls[a])[calls[a].name]
             /\ calls[a].h = TableOf(calls[a])[calls[a].name][calls[a].i])

\* C17 witness: one dispatch has invoked two different handlers, the one
\* registered first before the one registered second, and is over
C17_Witness ==
    /\ NoEventInProgress
    /\ Len(calls) = 2
    /\ SameDispatch(1, 2)
    /\ calls[1].h # calls[2].h
    /\ TableOf(calls[1])[calls[1].name] = <<calls[1].h, calls[2].h>>

\* the number of entries of the list l that are the callable h
Occurrences(l, h) == Cardinality({i \in DOMAIN l : l[i] = h})

\* the invocations of h among cs that worker w made for event number n in a
\* dispatch of the given kind
InvocationsOf(cs, h, w, n, kind) ==
    Cardinality({i \in DOMAIN cs : /\ cs[i].h = h /\ cs[i].w = w
                                   /\ cs[i].n = n /\ cs[i].kind = kind})

Without(l, k) == SubSeq(l, 1, k - 1) \o SubSeq(l, k + 1, Len(l))

\* registry new is registry old less one entry, the first occurrence of a
\* callback in the list of one event type
OneFirstOccurrenceRemoved(old, new) ==
    /\ Len(new) = Len(old)
    /\ \E i \in DOMAIN old, k \in 1..AtspiRegs :
          /\ k \in DOMAIN old[i].listeners
          /\ \A j \in 1..(k - 1) : old[i].listeners[j] # old[i].listeners[k]
          /\ new[i].event_type = old[i].event_type
          /\ new[i].listeners = Without(old[i].listeners, k)
          /\ \A x \in DOMAIN old : x # i => new[x] = old[x]

NotRegistered(t, cb) ==
    \A i \in DOMAIN event_listeners :
        event_listeners[i].event_type = t
            => \A k \in DOMAIN event_listeners[i].listeners :
                   event_listeners[i].listeners[k] # cb

\* C20: unregister_event_listener for a callback that is not registered
\* under the event type raises nothing, leaves the registry and the
\* manager as they are and de-registers nothing at the service.
C20_UnregisterAbsentIsNoOp ==
    [][\A t \in EventTypes, cb \in Callbacks :
          (NotRegistered(t, cb) /\ unregister_event_listener(t, cb))
             => /\ raisedIn' = "none"
                /\ aret' = "False"
                /\ UNCHANGED <<event_listeners, keystroke_listeners,
                               accessibility_manager, acc_initialized, root,
                               braille_display, atspi_connected>>]_vars

\* C20 witness: unregister_event_listener has just returned without
\* removing anything, on a manager that holds cb1 once, at the service too
C20_Witness ==
    /\ aop = "unregister_event_listener"
    /\ aret = "False"
    /\ raisedIn = "none"
    /\ accessibility_manager
    /\ AllListeners(event_listeners) = <<"cb1">>
    /\ keystroke_listeners["cb1"] = 1

\* the positions, in order, of the children that are applications whose
\* fields all resolve
ResolvableApps(children) ==
    SelectSeq([j \in 1..Len(children) |-> j],
              LAMBDA j : children[j] = [role |-> "application", fails |-> "none"])

\* C21: get_application_list() skips the applications for which resolving a
\* field fails and still returns the summaries of all the other
\* applications (one failing application out of three yields two summaries).
C21_FailingApplicationsAreSkipped ==
    (answer.fn = "get_application_list" /\ answer.called)
        => answer.apps = ResolvableApps(answer.children)

\* C22: as long as the accessibility manager has not been successfully
\* initialized (there is none, or its initialize() has not succeeded),
\* get_focused_node() and get_node_at_point() return None and
\* get_application_list() returns an empty list, without raising.
C22_NoResultBeforeInitializeSucceeds ==
    (answer.fn \in ManagerQueries /\ ~(accessibility_manager /\ acc_initialized))
        => /\ ~answer.propagated
           /\ answer.value # "node"
           /\ answer.apps = <<>>

\* the value each query returns when it has nothing to return
Fallback ==
    [get_focused_node |-> "None", get_node_at_point |-> "None",
     get_application_list |-> "none", get_actions |-> "none",
     get_text |-> "", perform_action |-> "False"]

\* C23: when a call of the accessibility service raises inside a query,
\* get_focused_node and get_node_at_point return None, get_application_list
\* and get_actions return an empty list, get_text returns the empty string
\* and perform_action returns false; no exception reaches the caller.
C23_QueriesNeverRaise ==
    answer.raised
        => /\ ~answer.propagated
           /\ answer.value = Fallback[answer.fn]
           /\ answer.apps = <<>>
           /\ answer.names = <<>>

\* C23 witness: perform_action has returned false after do_action raised
\* on the action it found.
C23_Witness ==
    /\ answer.fn = "perform_action"
    /\ answer.raised
    /\ answer.invoked # <<>>
    /\ answer.value = "False"
    /\ ~answer.propagated

\* the positions of the actions whose name is exactly action_name
Matches(actions, action_name) == {p \in DOMAIN actions : actions[p] = action_name}

\* C24: perform_action(action_name) invokes at most one action: when no
\* service call raises, it is the action at the lowest index whose name
\* equals action_name, invoked by that index, and true is returned; when
\* no name matches, nothing is invoked and false is returned.
C24_PerformActionInvokesFirstMatch ==
    answer.fn = "perform_action"
        => /\ Len(answer.invoked) <= 1
           /\ ~answer.raised =>
                LET m == Matches(answer.actions, answer.action_name)
                IN  IF m = {}
                    THEN answer.invoked = <<>> /\ answer.value = "False"
                    ELSE /\ answer.value = "True"
                         /\ \E p \in m :
                               /\ \A q \in m : p <= q
                               /\ answer.invoked = <<p - 1>>

\* C24 witness: perform_action("click") on a node whose two actions are
\* both named click has invoked index 0 and returned true.
C24_Witness ==
    /\ answer.fn = "perform_action"
    /\ answer.actions = <<"click", "click">>
    /\ answer.action_name = "click"
    /\ answer.invoked = <<0>>
    /\ answer.value = "True"

\* worker w has begun the handling of the event it read (its first state
\* update is made) and has not completed it
Handling(w) == workers[w].pc \in HandlingPcs \ {"pressed"}

\* C25: the events read from one device are handled in the order they were
\* read, one after the other: the state updates and handler invocations of
\* an event are complete before those of another event of the same device
\* begin, so the handlings of two events of one device never overlap.
C25_DeviceEventsHandledInOrder ==
    \A v \in WorkerIds, w \in WorkerIds :
        (v # w /\ Handling(v) /\ Handling(w)) => workers[v].dev # workers[w].dev

\* the position in self.devices of the next read of a worker at r: the
\* device it is reading, or the first one when it is at the head of the loop
NextRead(r) == IF r.pc = "read" THEN r.dev ELSE 1

\* C26: when a read on a device raises, the worker catches the error, backs
\* off and its next read is on that same device; the error neither sets
\* running to false nor ends the worker.
C26_ReadErrorRetriesSameDevice ==
    [][\A w \in WorkerIds :
          ReadError(w) =>
              /\ running' = running
              /\ workers'[w].pc \in {"read", "loop"}
              /\ NextRead(workers'[w]) = workers[w].dev]_vars

\* C27: cleanup() of the capture engine calls close() on every device of
\* its device list, also when some of the closes raise, and when it
\* returns the device list and all handler maps are empty and the engine
\* is uninitialized.
C27_CleanupClosesEveryDevice ==
    [][op' = "cleanup" =>
          /\ closed'.attempted = DOMAIN devices
          /\ devices' = <<>>
          /\ key_handlers' = NoHandlers
          /\ modifier_handlers' = NoHandlers
          /\ gesture_handlers' = NoGestures
          /\ ~initialized']_vars

\* C28: KeyState is cleared when capture stops: when stop() returns,
\* pressed_keys and modifiers are empty, so keys held at stop time are not
\* recorded as pressed when capture is started again.
C28_StopClearsKeyState ==
    (op = "stop" /\ ret = "None") => (pressed_keys = {} /\ modifiers = {})

\* C29: _is_keyboard_device returns true exactly when the device reports
\* the key-event capability and its key capabilities include at least one of
\* the probe codes KEY_A, KEY_SPACE, KEY_ENTER; when the inspection of the
\* capabilities fails it returns false and raises nothing.
C29_KeyboardIffKeyCapabilityWithProbeCode ==
    probe.called =>
        /\ ~probe.propagated
        /\ probe.raises => probe.result = "False"
        /\ probe.result \in {"True", "False"}
        /\ probe.result = "True" <=>
              /\ ~probe.raises
              /\ EV_KEY \in DOMAIN probe.capabilities
              /\ \/ KEY_A \in probe.capabilities[EV_KEY]
                 \/ KEY_SPACE \in probe.capabilities[EV_KEY]
                 \/ KEY_ENTER \in probe.capabilities[EV_KEY]

\* C29 witness: a device that reports, under EV_KEY, KEY_ENTER and a mouse
\* button and neither KEY_A nor KEY_SPACE was classified as a keyboard.
C29_Witness ==
    /\ probe.called
    /\ ~probe.raises
    /\ EV_KEY \in DOMAIN probe.capabilities
    /\ probe.capabilities[EV_KEY] = {KEY_ENTER, 272}
    /\ probe.result = "True"
    /\ ret = "True"

\* C30: a key callback registered before initialize() is called is still
\* registered after initialize() (and so invoked for the keys pressed after
\* it): initialize() leaves every list of key handlers as it was.
C30_InitializeKeepsKeyCallbacks ==
    [][op' = "initialize" =>
          \A n \in Names : key_handlers'[n] = key_handlers[n]]_vars

\* C31: after the module function initialize() has returned true the input
\* manager is listening for keys: capture has been started, a worker of the
\* engine runs.
C31_InitializeStartsCapture ==
    (op = "initialize" /\ ret = "True") => (running /\ OwnWorkers # {})

\* capture runs on an engine with two or more classified keyboards, and its
\* worker waits in the read of the first device
ReadingFirstOfTwo ==
    /\ Len(devices) >= 2
    /\ running
    /\ \E w \in OwnWorkers : workers[w].pc = "read" /\ workers[w].dev = 1

\* an event of a device after the first was read and completely handled
\* (in the two-device scenario the first device delivers nothing)
LaterDeviceEventHandled == nEvents > 0 /\ NoEventInProgress

\* C32: with two or more classified keyboards and capture running, an event
\* that one of the devices has to deliver is eventually read and handled,
\* even if the other devices never deliver an event and never fail: from
\* a state in which the worker reads the first device, an event of a later
\* device is eventually handled unless the read of the first device fails.
C32_EveryDeviceIsEventuallyRead ==
    ReadingFirstOfTwo ~> (LaterDeviceEventHandled \/ ~ReadingFirstOfTwo)

\* C33: at any time at most one worker thread of an engine is able to
\* handle events: while capture runs, the engine has at most one live
\* worker, whether start() is called while already running or after a
\* stop() whose join timed out.
C33_AtMostOneWorker ==
    running => Cardinality(OwnWorkers) <= 1

\* stop() has returned and start() has not been called since
Stopped == ~running /\ thread = None /\ apiPc = "idle"

\* worker w updates KeyState or invokes a handler in this step
WorkerActs(w) ==
    \/ UpdatePressed(w)
    \/ UpdateModifiers(w)
    \/ UpdateTime(w)
    \/ (workers[w].pc \in {"modh", "keyh"} /\ Len(calls') = Len(calls) + 1)

\* C34: once stop() has returned, the worker performs no KeyState update
\* and no handler invocation until start() is called again, even if the
\* join timed out and the worker is still alive.
C34_NoActivityAfterStop ==
    [][Stopped => \A w \in WorkerIds : ~WorkerActs(w)]_vars

\* C35: whenever register_event_listener or unregister_event_listener
\* returns false, also when the register or de-register call of the
\* accessibility service raises, the manager's event_listeners mapping is
\* exactly what it was before the call.
C35_FailedCallLeavesListeners ==
    [][(aop' \in {"register_event_listener", "unregister_event_listener"}
           /\ aret' = "False")
          => event_listeners' = event_listeners]_vars

\* the values handler h was given for the modifier of the name, in order
ModifierValues(name, h) ==
    LET s == SelectSeq(calls, LAMBDA c : c.kind = "modifier" /\ c.name = name /\ c.h = h)
    IN  [k \in DOMAIN s |-> s[k].arg]

\* true, false, true, ...: the values of a modifier that goes from not held
\* to held, back to not held, and so on
Alternating(s) ==
    \A k \in DOMAIN s : s[k] = (IF k % 2 = 1 THEN "True" ELSE "False")

\* C36: for each modifier code the modifier handlers see strictly
\* alternating values, pressed = true only when the modifier goes from not
\* held to held and pressed = false only when it goes from held to not
\* held, whatever the sequence of raw events (repeated downs, an up with
\* no prior down).  The handlers are registered before the first event and
\* no key is held then.
C36_ModifierValuesAlternate ==
    \A name \in Names, h \in Handlers : Alternating(ModifierValues(name, h))

\* C37: when cleanup() returns, every device node the engine opened during
\* enumeration has been closed: close() was called on every device of the
\* device list, and no node that was opened and then rejected by the
\* classification is left open.
C37_CleanupClosesEveryOpenedDevice ==
    [][op' = "cleanup" =>
          /\ closed'.attempted = DOMAIN devices
          /\ rejected' = {}]_vars

\* C38: in every state reached after a completely processed raw event, if
\* pressed_keys is empty then last_key_time is 0.
C38_NoKeyPressedMeansNoKeyTime ==
    (nEvents > 0 /\ NoEventInProgress /\ pressed_keys = {}) => last_key_time = 0

\* C39: AccessibilityNode.is_enabled() returns true exactly when the state
\* set of the node contains the flag that marks it as enabled (SENSITIVE),
\* and false otherwise.
C39_EnabledIffSensitive ==
    answer.fn = "is_enabled"
        => (answer.value = "True" <=> "SENSITIVE" \in answer.states)

====
